---- MODULE Spec2Model ----
(***************************************************************************)
(* Model of the oVirt VM pool module (ovirt_vmpool.py): the VmPoolsModule  *)
(* hooks (build_entity, build_vm, get_initialization, get_vms,             *)
(* post_create, __attach_nics, __get_vnic_profile_id, update_check) and    *)
(* main()'s present/absent dispatch with its wait loop, run against a      *)
(* remote engine holding one pool, its member VMs and their NICs.          *)
(*                                                                         *)
(* Python values: a parameter or attribute that may be None is the empty   *)
(* tuple <<>> when None and <<v>> when set to v.  A dict is a function     *)
(* whose DOMAIN is its set of keys; dict.get of a missing key is NoneStr.  *)
(***************************************************************************)
EXTENDS Integers, Sequences, FiniteSets, TLC

VARIABLES
    params,      \* module.params of the current (or last) pass
    pc,          \* position of main(): "idle" | "wait"
    pool,        \* the remote pool: <<>> or <<entity>>
    vms,         \* remote VMs: id -> [pool, status, nics]
    changed,     \* self.changed of the pass
    result,      \* outcome of the last pass: "none" | "ok" | "failed"
    err,         \* the exception that ended the pass, "" if none
    ret,         \* what create()/remove() returned: <<>> or <<entity>>
    requests,    \* mutating remote requests issued by the pass, in order
    waitList,    \* VM ids listed by main() for the wait loop
    waitIdx,     \* index in waitList of the VM being awaited
    elapsed,     \* ticks spent in the current wait() call
    blocked,     \* ticks spent in wait() over the whole pass
    found,       \* the pass's lookup found the pool
    rerun,       \* this pass repeats the previous pass's params, no change between
    prevChanged, \* self.changed at the end of the previous pass
    extChange,   \* somebody else changed the pool since the previous pass began
    attachFailed,\* an earlier pass created the pool and failed attaching NICs
    initialization, \* self._initialization
    initIn,      \* the vm mapping last given to get_initialization
    initOut,     \* what that call of get_initialization returned
    profIn,      \* the listing, networks and name given to __get_vnic_profile_id
    profOut,     \* what that call of __get_vnic_profile_id returned
    nicCall,     \* the last __attach_nics call on a VM and what it did
    ucOut,       \* what update_check returned for params and pool
    observed,    \* VMs the wait loop has seen DOWN or UP in this pass
    members,     \* VMs that belonged to the pool when create() returned
    attached,    \* VMs __attach_nics was called for in this pass, in order
    diverged,    \* the pool was found and a set compared field differed from it
    initAgain    \* a second get_initialization call: its vm mapping and result

vars == <<params, pc, pool, vms, changed, result, err, ret, requests,
          waitList, waitIdx, elapsed, blocked, found, rerun, prevChanged,
          extChange, attachFailed,
          initialization, initIn, initOut, profIn, profOut, nicCall, ucOut,
          observed, members, attached, diverged, initAgain>>

----------------------------------------------------------------------------
(* Python values *)

NoneStr == "None"

None == <<>>

Some(v) == <<v>>

Get(d, k) == IF k \in DOMAIN d THEN d[k] ELSE NoneStr

Pop(d, k) == [x \in (DOMAIN d) \ {k} |-> d[x]]

PopAll(d, ks) == [x \in (DOMAIN d) \ ks |-> d[x]]

Truthy(v) == v # NoneStr /\ v # ""

Lower(s) ==
    CASE s = "DHCP" -> "dhcp"
      [] s = "STATIC" -> "static"
      [] OTHER -> s

EmptyDict == [x \in {} |-> NoneStr]

SeqToSet(s) == {s[i] : i \in 1..Len(s)}

RECURSIVE SelectIdx(_, _, _)
SelectIdx(s, Keep(_), i) ==
    IF i > Len(s) THEN <<>>
    ELSE IF Keep(s[i]) THEN <<i>> \o SelectIdx(s, Keep, i + 1)
    ELSE SelectIdx(s, Keep, i + 1)

----------------------------------------------------------------------------
(* get_initialization *)

IpKeys == {"nic_ip_address", "nic_netmask", "nic_gateway"}

NicKeys == IpKeys \cup {"nic_name", "nic_boot_protocol", "nic_on_boot"}

HasIp(nic) == \E k \in IpKeys : Get(nic, k) # NoneStr

NicKeptByName(nic) ==
    \/ HasIp(nic)
    \/ Get(nic, "nic_boot_protocol") # NoneStr
    \/ Get(nic, "nic_on_boot") # NoneStr
    \/ Get(nic, "nic_name") # NoneStr

NicKept(nic) ==
    \/ HasIp(nic)
    \/ Get(nic, "nic_boot_protocol") # NoneStr
    \/ Get(nic, "nic_on_boot") # NoneStr

NicConfiguration(nic) ==
    [boot_protocol |-> IF Truthy(Get(nic, "nic_boot_protocol"))
                       THEN Lower(nic["nic_boot_protocol"]) ELSE NoneStr,
     name |-> Get(nic, "nic_name"),
     on_boot |-> Get(nic, "nic_on_boot"),
     ip |-> IF HasIp(nic)
            THEN <<[address |-> Get(nic, "nic_ip_address"),
                    netmask |-> Get(nic, "nic_netmask"),
                    gateway |-> Get(nic, "nic_gateway")]>>
            ELSE <<>>]

NicPopped(nic) ==
    IF ~NicKept(nic) THEN nic
    ELSE PopAll(nic,
           (IF Truthy(Get(nic, "nic_boot_protocol")) THEN {"nic_boot_protocol"} ELSE {})
           \cup {"nic_name", "nic_on_boot"}
           \cup (IF HasIp(nic) THEN IpKeys ELSE {}))

CloudInitNics(vm) ==
    (IF vm.cloud_init_nics = <<>> THEN <<>> ELSE vm.cloud_init_nics[1])
    \o (IF vm.cloud_init # <<>> THEN <<vm.cloud_init[1]>> ELSE <<>>)

NicConfigurations(frags) ==
    LET kept == SelectIdx(frags, NicKept, 1)
    IN  [i \in 1..Len(kept) |-> NicConfiguration(frags[kept[i]])]

get_initializationTruthy(memo, vm) ==
    IF memo # <<>> THEN [init |-> memo, err |-> ""]
    ELSE IF vm.cloud_init # <<>> /\ vm.cloud_init[1] # EmptyDict
    THEN [init |-> <<[nic_configurations |-> <<NicConfigurations(CloudInitNics(vm))>>,
                      kwargs |-> NicPopped(vm.cloud_init[1])]>>,
          err |-> ""]
    ELSE IF vm.sysprep # <<>> /\ vm.sysprep[1] # EmptyDict
    THEN [init |-> <<[nic_configurations |-> <<>>, kwargs |-> vm.sysprep[1]]>>,
          err |-> ""]
    ELSE [init |-> <<>>, err |-> ""]

get_initialization(memo, vm) ==
    IF memo # <<>> THEN [init |-> memo, err |-> ""]
    ELSE
      LET sysprep == vm.sysprep
          cloud_init == vm.cloud_init
          cloud_init_nics == CloudInitNics(vm)
      IN  IF (cloud_init # <<>> /\ cloud_init[1] # EmptyDict) \/ cloud_init_nics # <<>>
          THEN IF cloud_init = <<>>
               THEN [init |-> <<>>, err |-> "TypeError"]
               ELSE [init |-> <<[nic_configurations |->
                                   <<NicConfigurations(cloud_init_nics)>>,
                                 kwargs |-> NicPopped(cloud_init[1])]>>,
                     err |-> ""]
          ELSE IF sysprep # <<>> /\ sysprep[1] # EmptyDict
          THEN [init |-> <<[nic_configurations |-> <<>>, kwargs |-> sysprep[1]]>>,
                err |-> ""]
          ELSE [init |-> <<>>, err |-> ""]

----------------------------------------------------------------------------
(* build_entity, build_vm *)

Vm(r) == [err |-> r.err, vm |-> [initialization |-> r.init]]

build_vm(memo, vm) == Vm(get_initialization(memo, vm))

VmPool(p, b) ==
    IF b.err # ""
    THEN [err |-> b.err, entity |-> None]
    ELSE [err |-> "",
          entity |-> Some([id |-> p.id,
                           name |-> p.name,
                           description |-> p.description,
                           comment |-> p.comment,
                           cluster |-> p.cluster,
                           template |-> p.template,
                           max_user_vms |-> p.vm_per_user,
                           prestarted_vms |-> p.prestarted,
                           size |-> p.vm_count,
                           type |-> p.type,
                           vm |-> Some(b.vm)])]

build_entity(p) ==
    IF p.vm = None
    THEN [err |-> "AttributeError", entity |-> None]
    ELSE VmPool(p, build_vm(None, p.vm[1]))

----------------------------------------------------------------------------
(* update_check *)

ClusterNetworks == [c1 |-> {"netA"}, c2 |-> {"netB"}]

ClusterLink(name) == "link-" \o name

get_link_name(link) ==
    IF link = None THEN None
    ELSE Some(CHOOSE c \in DOMAIN ClusterNetworks : ClusterLink(c) = link[1])

equal(param1, param2) == param1 = None \/ param1 = param2

update_checkNoSkip(p, entity) ==
    /\ equal(p.name, entity.name)
    /\ equal(p.cluster, get_link_name(entity.cluster))
    /\ p.description = entity.description
    /\ equal(p.comment, entity.comment)
    /\ equal(p.vm_per_user, entity.max_user_vms)
    /\ equal(p.prestarted, entity.prestarted_vms)
    /\ equal(p.vm_count, entity.size)

update_check(p, entity) ==
    /\ equal(p.name, entity.name)
    /\ equal(p.cluster, get_link_name(entity.cluster))
    /\ equal(p.description, entity.description)
    /\ equal(p.comment, entity.comment)
    /\ equal(p.vm_per_user, entity.max_user_vms)
    /\ equal(p.prestarted, entity.prestarted_vms)
    /\ equal(p.vm_count, entity.size)

----------------------------------------------------------------------------
(* __get_vnic_profile_id *)

ProfilesNamed(profiles, name) ==
    LET Named(profile) == profile.name = name
        idx == SelectIdx(profiles, Named, 1)
    IN  [i \in 1..Len(idx) |-> profiles[idx[i]]]

get_vnic_profile_idAnyCluster(vnic_profiles, cluster_networks, profile_name) ==
    IF ProfilesNamed(vnic_profiles, profile_name) # <<>>
    THEN [id |-> ProfilesNamed(vnic_profiles, profile_name)[1].id, err |-> ""]
    ELSE [id |-> NoneStr, err |-> "ProfileNotFound"]

get_vnic_profile_idLast(vnic_profiles, cluster_networks, profile_name) ==
    LET profiles == ProfilesNamed(vnic_profiles, profile_name)
        InCluster(profile) == profile.network \in cluster_networks
        hits == SelectIdx(profiles, InCluster, 1)
    IN  IF hits # <<>>
        THEN [id |-> profiles[hits[Len(hits)]].id, err |-> ""]
        ELSE [id |-> NoneStr, err |-> "ProfileNotFound"]

get_vnic_profile_id(vnic_profiles, cluster_networks, profile_name) ==
    LET profiles == ProfilesNamed(vnic_profiles, profile_name)
        InCluster(profile) == profile.network \in cluster_networks
        hits == SelectIdx(profiles, InCluster, 1)
    IN  IF hits # <<>>
        THEN [id |-> profiles[hits[1]].id, err |-> ""]
        ELSE [id |-> NoneStr, err |-> "ProfileNotFound"]

----------------------------------------------------------------------------
(* __attach_nics *)

search_by_name(list, name) ==
    LET Named(e) == e.name = name
        idx == SelectIdx(list, Named, 1)
    IN  IF idx = <<>> THEN None ELSE Some(list[idx[1]])

Nic(nic, profile_id) ==
    [name |-> Get(nic, "name"),
     interface |-> IF "interface" \in DOMAIN nic THEN nic["interface"] ELSE "virtio",
     vnic_profile |-> profile_id]

NicsAdd(st, nic, prof) ==
    IF prof.err # ""
    THEN [st EXCEPT !.err = prof.err]
    ELSE [st EXCEPT !.nics = Append(@, Nic(nic, prof.id)),
                    !.added = @ + 1,
                    !.changed = TRUE]

AttachNicNoLookup(st, nic, check_mode, vnic_profiles, cluster_networks) ==
    IF check_mode THEN [st EXCEPT !.changed = TRUE]
    ELSE NicsAdd(st, nic,
                 IF Truthy(Get(nic, "profile_name"))
                 THEN get_vnic_profile_id(vnic_profiles, cluster_networks,
                                          nic["profile_name"])
                 ELSE [id |-> NoneStr, err |-> ""])

AttachNicInAnyMode(st, nic, check_mode, vnic_profiles, cluster_networks) ==
    IF search_by_name(st.nics, Get(nic, "name")) # None THEN st
    ELSE NicsAdd(st, nic,
                 IF Truthy(Get(nic, "profile_name"))
                 THEN get_vnic_profile_id(vnic_profiles, cluster_networks,
                                          nic["profile_name"])
                 ELSE [id |-> NoneStr, err |-> ""])

AttachNic(st, nic, check_mode, vnic_profiles, cluster_networks) ==
    IF search_by_name(st.nics, Get(nic, "name")) # None THEN st
    ELSE IF check_mode THEN [st EXCEPT !.changed = TRUE]
    ELSE NicsAdd(st, nic,
                 IF Truthy(Get(nic, "profile_name"))
                 THEN get_vnic_profile_id(vnic_profiles, cluster_networks,
                                          nic["profile_name"])
                 ELSE [id |-> NoneStr, err |-> ""])

RECURSIVE attach_nics(_, _, _, _, _)
attach_nics(st, nics, check_mode, vnic_profiles, cluster_networks) ==
    IF nics = <<>> \/ st.err # "" THEN st
    ELSE attach_nics(AttachNic(st, Head(nics), check_mode, vnic_profiles,
                               cluster_networks),
                     Tail(nics), check_mode, vnic_profiles, cluster_networks)

----------------------------------------------------------------------------
(* Bounds of the model *)

NumVms == 4

MaxNics == 2

Timeout == 2

----------------------------------------------------------------------------
(* The remote engine: one pool, the VMs of its universe, the clusters and  *)
(* the VNIC profile listing.                                               *)

PoolId == "id1"

VmIds == 1..NumVms

VnicProfiles ==
    <<[id |-> "p1", name |-> "prof", network |-> "netB"],
      [id |-> "p2", name |-> "prof", network |-> "netA"],
      [id |-> "p3", name |-> "prof", network |-> "netA"],
      [id |-> "p4", name |-> "lonely", network |-> "netB"]>>

NoVm == [pool |-> None, status |-> "none", nics |-> <<>>]

OtherPoolVm == [pool |-> Some("id2"), status |-> "up", nics |-> <<>>]

Default(v, d) == IF v = None THEN Some(d) ELSE v

Min(a, b) == IF a < b THEN a ELSE b

Spawn(vmap, size) ==
    [v \in VmIds |->
        IF v <= size /\ vmap[v].pool = None
        THEN [pool |-> Some(PoolId), status |-> "image_locked", nics |-> <<>>]
        ELSE vmap[v]]

RemoteAdd(entity) ==
    IF entity.cluster = None \/ entity.template = None
       \/ entity.cluster[1] \notin DOMAIN ClusterNetworks
    THEN [err |-> "ValidationError", entity |-> None]
    ELSE [err |-> "",
          entity |-> Some([entity EXCEPT
                             !.id = Some(PoolId),
                             !.cluster = Some(ClusterLink(entity.cluster[1])),
                             !.description = Default(@, ""),
                             !.comment = Default(@, ""),
                             !.max_user_vms = Default(@, 1),
                             !.prestarted_vms = Default(@, 0),
                             !.size = Default(@, 1),
                             !.type = Default(@, "automatic")])]

RemoteUpdate(old, new) ==
    [f \in DOMAIN old |->
        IF f = "id" \/ new[f] = None THEN old[f]
        ELSE IF f = "cluster" THEN Some(ClusterLink(new[f][1]))
        ELSE new[f]]

search_entity(p, remote) ==
    IF remote = None THEN None
    ELSE IF p.id # None
    THEN (IF remote[1].id = p.id THEN remote ELSE None)
    ELSE (IF remote[1].name = p.name THEN remote ELSE None)

----------------------------------------------------------------------------
(* get_vms, post_create *)

RECURSIVE Ascending(_, _)
Ascending(S, from) ==
    IF from > NumVms THEN <<>>
    ELSE (IF from \in S THEN <<from>> ELSE <<>>) \o Ascending(S, from + 1)

get_vmsOfAnyPool(vmap, entity) ==
    Ascending({v \in VmIds : vmap[v].pool # None}, 1)

get_vms(vmap, entity) ==
    Ascending({v \in VmIds : vmap[v].pool # None /\ vmap[v].pool = entity.id}, 1)

AttachedAhead(st, v, a) ==
    [vms |-> [st.vms EXCEPT ![v].nics = a.nics],
     changed |-> a.changed,
     err |-> a.err,
     requests |-> [i \in 1..a.added |-> "nic_add"] \o st.requests,
     calls |-> Append(st.calls, v)]

Attached(st, v, a) ==
    [vms |-> [st.vms EXCEPT ![v].nics = a.nics],
     changed |-> a.changed,
     err |-> a.err,
     requests |-> st.requests \o [i \in 1..a.added |-> "nic_add"],
     calls |-> Append(st.calls, v)]

RECURSIVE AttachAllKeepsGoing(_, _, _)
AttachAllKeepsGoing(st, list, p) ==
    IF list = <<>> THEN st
    ELSE AttachAllKeepsGoing(
           Attached(st, Head(list),
                    attach_nics([nics |-> st.vms[Head(list)].nics,
                                 changed |-> st.changed, err |-> "", added |-> 0],
                                p.vm[1].nics[1], p.check_mode, VnicProfiles,
                                ClusterNetworks[p.cluster[1]])),
           Tail(list), p)

RECURSIVE AttachAll(_, _, _)
AttachAll(st, list, p) ==
    IF list = <<>> \/ st.err # "" THEN st
    ELSE AttachAll(
           Attached(st, Head(list),
                    attach_nics([nics |-> st.vms[Head(list)].nics,
                                 changed |-> st.changed, err |-> "", added |-> 0],
                                p.vm[1].nics[1], p.check_mode, VnicProfiles,
                                ClusterNetworks[p.cluster[1]])),
           Tail(list), p)

post_create(st, entity, p) ==
    IF p.vm # None /\ p.vm[1].nics # None
    THEN AttachAll(st, get_vms(st.vms, entity), p)
    ELSE st

----------------------------------------------------------------------------
(* BaseModule.create and BaseModule.remove, as main() uses them *)

Quiet(entity, remote, vmap) ==
    [pool |-> remote, vms |-> vmap, changed |-> FALSE, err |-> "",
     ret |-> entity, requests |-> <<>>, calls |-> <<>>]

Updated(quiet, updated) ==
    [quiet EXCEPT !.pool = Some(updated),
                  !.vms = Spawn(quiet.vms, Min(updated.size[1], NumVms)),
                  !.changed = TRUE,
                  !.ret = Some(updated),
                  !.requests = <<"update">>]

Update(quiet, entity, b) ==
    IF b.err # "" THEN [quiet EXCEPT !.err = b.err]
    ELSE Updated(quiet, RemoteUpdate(entity, b.entity[1]))

PostCreated(added, st) ==
    [pool |-> Some(added), vms |-> st.vms,
     changed |-> (st.err = "" \/ st.changed),
     err |-> st.err,
     ret |-> IF st.err = "" THEN Some(added) ELSE None,
     requests |-> st.requests,
     calls |-> st.calls]

Added(quiet, a, p) ==
    IF a.err # "" THEN [quiet EXCEPT !.err = a.err]
    ELSE PostCreated(a.entity[1],
                     post_create([vms |-> Spawn(quiet.vms,
                                                Min(a.entity[1].size[1], NumVms)),
                                  changed |-> FALSE, err |-> "",
                                  requests |-> <<"add">>, calls |-> <<>>],
                                 a.entity[1], p))

Add(quiet, b, p) ==
    IF b.err # "" THEN [quiet EXCEPT !.err = b.err]
    ELSE Added(quiet, RemoteAdd(b.entity[1]), p)

Found(p, entity, remote, vmap) ==
    IF entity # None
    THEN IF ~update_check(p, entity[1])
         THEN Update(Quiet(entity, remote, vmap), entity[1], build_entity(p))
         ELSE Quiet(entity, remote, vmap)
    ELSE Add(Quiet(entity, remote, vmap), build_entity(p), p)

create(p, remote, vmap) == Found(p, search_entity(p, remote), remote, vmap)

Removed(entity, remote, vmap) ==
    IF entity = None
    THEN [pool |-> remote, vms |-> vmap, changed |-> FALSE, requests |-> <<>>]
    ELSE [pool |-> None,
          vms |-> [v \in VmIds |-> IF vmap[v].pool = entity[1].id THEN NoVm
                                   ELSE vmap[v]],
          changed |-> TRUE,
          requests |-> <<"stop", "remove">>]

remove(p, remote, vmap) == Removed(search_entity(p, remote), remote, vmap)

----------------------------------------------------------------------------
(* The passes main() is run with *)

SeqsUpTo(S, n) == UNION {[1..k -> S] : k \in 0..n}

Base ==
    [id |-> None, name |-> Some("pool1"), state |-> "present",
     template |-> Some("rhel7"), cluster |-> Some("c1"),
     description |-> None, comment |-> None, vm |-> None,
     vm_per_user |-> Some(1), prestarted |-> Some(2), vm_count |-> Some(2),
     type |-> None, wait |-> FALSE, timeout |-> Timeout, check_mode |-> FALSE]

NicA == [name |-> "nic1", profile_name |-> "prof"]

NicB == [name |-> "nic2", profile_name |-> "lonely"]

NicC == [name |-> "nic2"]

VmBlock(nics) ==
    [nics |-> nics, sysprep |-> None, cloud_init |-> None, cloud_init_nics |-> None]

VmBlocks ==
    {None, Some(VmBlock(None)), Some(VmBlock(Some(<<NicA>>))),
     Some(VmBlock(Some(<<NicA, NicB>>))), Some(VmBlock(Some(<<NicA, NicC>>)))}

PresentParams ==
    {[Base EXCEPT !.vm = v, !.wait = w] : v \in VmBlocks, w \in BOOLEAN}
    \cup {[Base EXCEPT !.vm = Some(VmBlock(None)), !.description = Some("d1")],
          [Base EXCEPT !.vm = Some(VmBlock(None)), !.type = Some("manual"),
                       !.template = Some("other")]}
    \cup {[Base EXCEPT !.id = Some(PoolId), !.name = Some("pool2"), !.vm = v] :
             v \in {None, Some(VmBlock(None))}}

AbsentParams ==
    {[Base EXCEPT !.state = "absent"],
     [Base EXCEPT !.state = "absent", !.id = Some(PoolId), !.name = Some("pool2")]}

Addressed(p) == pool = None \/ search_entity(p, pool) # None

IsReady(v) == vms[v].status \in {"down", "up"}

CheckVars == <<initialization, initIn, initOut, profIn, profOut, nicCall, ucOut>>

WaitVars == <<waitList, waitIdx, elapsed, blocked, observed>>

----------------------------------------------------------------------------
(* main() *)

Fresh ==
    /\ pc = "idle"
    /\ changed = FALSE
    /\ result = "none"
    /\ err = ""
    /\ ret = None
    /\ requests = <<>>
    /\ waitList = <<>>
    /\ waitIdx = 1
    /\ elapsed = 0
    /\ blocked = 0
    /\ found = FALSE
    /\ rerun = FALSE
    /\ prevChanged = FALSE
    /\ extChange = FALSE
    /\ attachFailed = FALSE
    /\ initialization = None
    /\ initIn = None
    /\ initOut = None
    /\ profIn = None
    /\ profOut = None
    /\ nicCall = None
    /\ ucOut = None
    /\ observed = {}
    /\ members = {}
    /\ attached = <<>>
    /\ diverged = FALSE
    /\ initAgain = None

Init ==
    /\ params = [Base EXCEPT !.state = "none"]
    /\ pool = None
    /\ vms = [v \in VmIds |-> IF v = NumVms THEN OtherPoolVm ELSE NoVm]
    /\ Fresh

MembersOf(remote, vmap) ==
    IF remote = None THEN {}
    ELSE {v \in VmIds : vmap[v].pool = remote[1].id}

Differs(p, entity, f) ==
    /\ p[f] # None
    /\ IF f = "cluster" THEN entity.cluster # Some(ClusterLink(p.cluster[1]))
       ELSE IF f = "vm_per_user" THEN entity.max_user_vms # p[f]
       ELSE IF f = "prestarted" THEN entity.prestarted_vms # p[f]
       ELSE IF f = "vm_count" THEN entity.size # p[f]
       ELSE entity[f] # p[f]

Diverges(p, entity) ==
    /\ entity # None
    /\ \E f \in {"name", "cluster", "description", "comment", "vm_per_user",
                  "prestarted", "vm_count"} : Differs(p, entity[1], f)

Listed(r, p) ==
    IF r.pool # None /\ r.pool[1].name = p.name
    THEN get_vms(r.vms, r.pool[1]) ELSE <<>>

Present(p) ==
    /\ pc = "idle"
    /\ Addressed(p)
    /\ \E r \in {create(p, pool, vms)} :
           /\ params' = p
           /\ pool' = r.pool
           /\ vms' = r.vms
           /\ changed' = r.changed
           /\ ret' = r.ret
           /\ requests' = r.requests
           /\ err' = r.err
           /\ found' = (search_entity(p, pool) # None)
           /\ rerun' = (params = p /\ ~extChange)
           /\ prevChanged' = changed
           /\ extChange' = FALSE
           /\ attachFailed' = IF r.err = "ProfileNotFound" THEN TRUE
                              ELSE IF "add" \in SeqToSet(r.requests) THEN FALSE
                              ELSE attachFailed
           /\ waitList' = IF r.err = "" /\ p.wait THEN Listed(r, p) ELSE <<>>
           /\ pc' = IF waitList' # <<>> THEN "wait" ELSE "idle"
           /\ result' = IF r.err # "" THEN "failed"
                        ELSE IF waitList' # <<>> THEN "none" ELSE "ok"
           /\ waitIdx' = 1
           /\ elapsed' = 0
           /\ blocked' = 0
           /\ observed' = {}
           /\ members' = MembersOf(r.pool, r.vms)
           /\ attached' = r.calls
           /\ diverged' = Diverges(p, search_entity(p, pool))
    /\ UNCHANGED <<initAgain>>
    /\ UNCHANGED CheckVars

WaitReadyUnobserved ==
    /\ pc = "wait"
    /\ elapsed < params.timeout
    /\ IF waitIdx = Len(waitList)
       THEN /\ pc' = "idle"
            /\ result' = "ok"
            /\ waitIdx' = waitIdx
       ELSE /\ waitIdx' = waitIdx + 1
            /\ UNCHANGED <<pc, result>>
    /\ elapsed' = 0
    /\ observed' = IF IsReady(waitList[waitIdx])
                   THEN observed \cup {waitList[waitIdx]} ELSE observed
    /\ UNCHANGED <<params, pool, vms, changed, err, ret, requests, waitList,
                   blocked, found, rerun, prevChanged, extChange, attachFailed,
                   members, attached, diverged, initAgain>>
    /\ UNCHANGED CheckVars

WaitReady ==
    /\ pc = "wait"
    /\ elapsed < params.timeout
    /\ IsReady(waitList[waitIdx])
    /\ IF waitIdx = Len(waitList)
       THEN /\ pc' = "idle"
            /\ result' = "ok"
            /\ waitIdx' = waitIdx
       ELSE /\ waitIdx' = waitIdx + 1
            /\ UNCHANGED <<pc, result>>
    /\ elapsed' = 0
    /\ observed' = observed \cup {waitList[waitIdx]}
    /\ UNCHANGED <<params, pool, vms, changed, err, ret, requests, waitList,
                   blocked, found, rerun, prevChanged, extChange, attachFailed, members, attached, diverged, initAgain>>
    /\ UNCHANGED CheckVars

WaitTick ==
    /\ pc = "wait"
    /\ elapsed < params.timeout
    /\ ~IsReady(waitList[waitIdx])
    /\ elapsed' = elapsed + 1
    /\ blocked' = blocked + 1
    /\ UNCHANGED <<params, pc, pool, vms, changed, result, err, ret, requests,
                   waitList, waitIdx, observed, found, rerun, prevChanged, extChange,
                   attachFailed, members, attached, diverged, initAgain>>
    /\ UNCHANGED CheckVars

WaitTimeout ==
    /\ pc = "wait"
    /\ elapsed >= params.timeout
    /\ pc' = "idle"
    /\ result' = "failed"
    /\ err' = "Timeout"
    /\ UNCHANGED <<params, pool, vms, changed, ret, requests, found, rerun,
                   prevChanged, extChange, attachFailed, members, attached, diverged, initAgain>>
    /\ UNCHANGED WaitVars
    /\ UNCHANGED CheckVars

AbsentSkipsRemove(p) ==
    /\ pc = "idle"
    /\ Addressed(p)
    /\ params' = p
    /\ found' = (search_entity(p, pool) # None)
    /\ rerun' = (params = p /\ ~extChange)
    /\ prevChanged' = changed
    /\ changed' = FALSE
    /\ requests' = <<>>
    /\ ret' = None
    /\ err' = ""
    /\ result' = "ok"
    /\ extChange' = FALSE
    /\ waitList' = <<>>
    /\ waitIdx' = 1
    /\ elapsed' = 0
    /\ blocked' = 0
    /\ observed' = {}
    /\ members' = {}
    /\ attached' = <<>>
    /\ diverged' = FALSE
    /\ UNCHANGED <<pc, pool, vms, attachFailed, initAgain>>
    /\ UNCHANGED CheckVars

Absent(p) ==
    /\ pc = "idle"
    /\ Addressed(p)
    /\ \E r \in {remove(p, pool, vms)} :
           /\ params' = p
           /\ pool' = r.pool
           /\ vms' = r.vms
           /\ changed' = r.changed
           /\ requests' = r.requests
           /\ attachFailed' = IF r.pool = None THEN FALSE ELSE attachFailed
    /\ ret' = None
    /\ err' = ""
    /\ result' = "ok"
    /\ found' = (search_entity(p, pool) # None)
    /\ rerun' = (params = p /\ ~extChange)
    /\ prevChanged' = changed
    /\ extChange' = FALSE
    /\ waitList' = <<>>
    /\ waitIdx' = 1
    /\ elapsed' = 0
    /\ blocked' = 0
    /\ observed' = {}
    /\ members' = {}
    /\ attached' = <<>>
    /\ diverged' = FALSE
    /\ UNCHANGED <<pc, initAgain>>
    /\ UNCHANGED CheckVars

----------------------------------------------------------------------------
(* The engine and other actors, between and during passes *)

VmStatus(v) ==
    /\ vms[v].pool # None
    /\ vms[v].status = "image_locked"
    /\ vms' = [vms EXCEPT ![v].status =
                  IF pool # None /\ v <= pool[1].prestarted_vms[1] THEN "up" ELSE "down"]
    /\ UNCHANGED <<params, pc, pool, changed, result, err, ret, requests,
                   found, rerun, prevChanged, extChange, attachFailed, members, attached, diverged, initAgain>>
    /\ UNCHANGED WaitVars
    /\ UNCHANGED CheckVars

VmJoin(v) ==
    /\ pool # None
    /\ vms[v].pool = None
    /\ \A w \in 1..(v - 1) : vms[w].pool # None
    /\ vms' = [vms EXCEPT ![v] = [pool |-> pool[1].id, status |-> "image_locked",
                                  nics |-> <<>>]]
    /\ UNCHANGED <<params, pc, pool, changed, result, err, ret, requests,
                   found, rerun, prevChanged, extChange, attachFailed, members, attached, diverged, initAgain>>
    /\ UNCHANGED WaitVars
    /\ UNCHANGED CheckVars

ExternalUpdate ==
    /\ pc = "idle"
    /\ pool # None
    /\ pool[1].description # Some("ext")
    /\ pool' = Some([pool[1] EXCEPT !.description = Some("ext")])
    /\ extChange' = TRUE
    /\ UNCHANGED <<params, pc, vms, changed, result, err, ret, requests,
                   found, rerun, prevChanged, attachFailed, members, attached, diverged, initAgain>>
    /\ UNCHANGED WaitVars
    /\ UNCHANGED CheckVars

Next ==
    \/ \E p \in PresentParams : Present(p)
    \/ \E p \in AbsentParams : Absent(p)
    \/ WaitReady
    \/ WaitTick
    \/ WaitTimeout
    \/ \E v \in VmIds : VmStatus(v)
    \/ \E v \in VmIds : VmJoin(v)
    \/ ExternalUpdate

Spec == Init /\ [][Next]_vars

----------------------------------------------------------------------------
(* Properties of the passes *)

DeclaredNics == IF params.vm # None /\ params.vm[1].nics # None
                THEN params.vm[1].nics[1] ELSE <<>>

NicNames(v) == {vms[v].nics[i].name : i \in 1..Len(vms[v].nics)}

PassEnded == pc = "idle" /\ result # "none"

\* C1: a present pass that repeats the previous pass's spec, with no change
\* by anyone else in between, issues no create, update or NIC-add request
\* and reports changed = false.
C1_Idempotent ==
    (rerun /\ params.state = "present") => (requests = <<>> /\ changed = FALSE)

C1_Witness ==
    /\ rerun
    /\ params.state = "present"
    /\ PassEnded
    /\ result = "ok"
    /\ prevChanged
    /\ DeclaredNics # <<>>
    /\ pool # None

\* C2: a present pass with the minimal spec (name, cluster, template,
\* vm_count=2, prestarted=2, vm_per_user=1, no vm block) that finds the pool
\* absent creates it, reports changed = true and returns an entity with
\* size=2, prestartedVms=2, maxUserVms=1, without an error.
C2_MinimalCreates ==
    (PassEnded /\ params.state = "present" /\ params.vm = None /\ params.id = None
       /\ ~found)
    => /\ result = "ok"
       /\ changed
       /\ "add" \in SeqToSet(requests)
       /\ ret # None
       /\ ret[1].size = Some(2)
       /\ ret[1].prestarted_vms = Some(2)
       /\ ret[1].max_user_vms = Some(1)

\* C3: an absent pass that finds the pool stops and deletes it and reports
\* changed = true; one that finds no pool (a repeated run included) issues no
\* request and reports changed = false; after it the pool does not exist.
C3_AbsentIdempotent ==
    params.state = "absent" =>
       /\ result = "ok"
       /\ pool = None
       /\ found => (changed /\ requests = <<"stop", "remove">>)
       /\ ~found => (~changed /\ requests = <<>>)
       /\ rerun => ~found

C3_Witness ==
    /\ params.state = "absent"
    /\ rerun
    /\ prevChanged
    /\ ~changed

\* C6: after a pass that created the pool and failed attaching NICs, a later
\* present pass that ends without error leaves every VM the pool spawned with
\* every NIC it declares.
C6_RecoversNics ==
    (PassEnded /\ result = "ok" /\ params.state = "present" /\ attachFailed
       /\ pool # None)
    => \A v \in 1..Min(pool[1].size[1], NumVms) :
          {DeclaredNics[i].name : i \in 1..Len(DeclaredNics)} \subseteq NicNames(v)

\* C10: the time a pass spends blocked in wait(), summed over the VMs it
\* awaits, never exceeds the configured timeout.
C10_TotalBlockingBounded == blocked <= params.timeout

----------------------------------------------------------------------------
(* update_check on its own: any desired spec against any actual entity *)

DesiredSpecs ==
    {[Base EXCEPT !.name = n, !.cluster = c, !.description = d, !.comment = k,
                  !.vm_per_user = u, !.prestarted = s, !.vm_count = z] :
        n \in {Some("pool1"), Some("pool2")}, c \in {None, Some("c1")},
        d \in {None, Some("d1")}, k \in {None, Some("k1")},
        u \in {None, Some(1)}, s \in {None, Some(2)}, z \in {None, Some(2)}}

ActualValues ==
    [name |-> {Some("pool1"), Some("pool2")},
     cluster |-> {Some(ClusterLink("c1")), Some(ClusterLink("c2"))},
     description |-> {Some(""), Some("d1")},
     comment |-> {Some(""), Some("k1")},
     max_user_vms |-> {Some(1), Some(3)},
     prestarted_vms |-> {Some(0), Some(2)},
     size |-> {Some(1), Some(2)}]

ActualEntities ==
    {[id |-> Some(PoolId), name |-> n, cluster |-> c, description |-> d,
      comment |-> k, max_user_vms |-> u, prestarted_vms |-> s, size |-> z,
      template |-> Some("rhel7"), type |-> Some("automatic"), vm |-> None] :
        n \in ActualValues.name, c \in ActualValues.cluster,
        d \in ActualValues.description, k \in ActualValues.comment,
        u \in ActualValues.max_user_vms, s \in ActualValues.prestarted_vms,
        z \in ActualValues.size}

ComparedFields ==
    [name |-> "name", cluster |-> "cluster", description |-> "description",
     comment |-> "comment", vm_per_user |-> "max_user_vms",
     prestarted |-> "prestarted_vms", vm_count |-> "size"]

InitCheck ==
    /\ params \in DesiredSpecs
    /\ pool \in {RemoteAdd(build_entity([params EXCEPT !.cluster = Some("c1"),
                                                         !.vm = Some(VmBlock(None))])
                              .entity[1]).entity}
    /\ vms = [v \in VmIds |-> NoVm]
    /\ Fresh

UpdateCheck ==
    /\ ucOut' = Some(update_check(params, pool[1]))
    /\ UNCHANGED <<params, pc, pool, vms, changed, result, err, ret, requests,
                   found, rerun, prevChanged, extChange, attachFailed,
                   members, attached, diverged, initAgain,
                   initialization, initIn, initOut, profIn, profOut, nicCall>>
    /\ UNCHANGED WaitVars

EntityChanges(f, v) ==
    /\ pool[1][f] # v
    /\ pool' = Some([pool[1] EXCEPT ![f] = v])
    /\ ucOut' = None
    /\ UNCHANGED <<params, pc, vms, changed, result, err, ret, requests,
                   found, rerun, prevChanged, extChange, attachFailed,
                   members, attached, diverged, initAgain,
                   initialization, initIn, initOut, profIn, profOut, nicCall>>
    /\ UNCHANGED WaitVars

NextCheck ==
    \/ UpdateCheck
    \/ \E f \in DOMAIN ActualValues : \E v \in ActualValues[f] : EntityChanges(f, v)

SpecCheck == InitCheck /\ [][NextCheck]_vars

----------------------------------------------------------------------------
(* __get_vnic_profile_id on its own: any listing, any cluster networks *)

MaxProfiles == 3

Networks == {"netA", "netB"}

ProfileNames == {"prof", "lonely"}

ProfileId(i) == "p" \o ToString(i)

Listings ==
    {[i \in 1..Len(l) |-> [id |-> ProfileId(i), name |-> l[i][1], network |-> l[i][2]]] :
        l \in SeqsUpTo(ProfileNames \X Networks, MaxProfiles)}

InitProfile ==
    /\ params = [Base EXCEPT !.state = "none"]
    /\ pool = None
    /\ vms = [v \in VmIds |-> NoVm]
    /\ Fresh

GetVnicProfileId(listing, networks, name) ==
    /\ profIn = None
    /\ profIn' = Some([profiles |-> listing, networks |-> networks, name |-> name])
    /\ profOut' = Some(get_vnic_profile_id(listing, networks, name))
    /\ UNCHANGED <<params, pc, pool, vms, changed, result, err, ret, requests,
                   found, rerun, prevChanged, extChange, attachFailed,
                   members, attached, diverged, initAgain,
                   initialization, initIn, initOut, nicCall, ucOut>>
    /\ UNCHANGED WaitVars

NextProfile ==
    /\ profIn = None
    /\ \E listing \in Listings, networks \in SUBSET Networks, name \in ProfileNames :
          GetVnicProfileId(listing, networks, name)

SpecProfile == InitProfile /\ [][NextProfile]_vars

----------------------------------------------------------------------------
(* __attach_nics on its own: any NIC list, on a VM, in either mode *)

AnyNicSpecs ==
    {[name |-> n] : n \in {"nic1", "nic2"}}
    \cup {[name |-> "nic2", profile_name |-> "prof"],
          [name |-> "nic1", profile_name |-> "lonely"]}

AnyNicLists == SeqsUpTo(AnyNicSpecs, MaxNics)

InitNic ==
    /\ params = [Base EXCEPT !.state = "none"]
    /\ pool = None
    /\ \E n \in {<<>>, <<Nic([name |-> "nic1"], NoneStr)>>} :
          vms = [v \in VmIds |->
                   IF v = 1 THEN [pool |-> Some(PoolId), status |-> "up", nics |-> n]
                   ELSE NoVm]
    /\ Fresh

NicCalled(nics, check_mode, a) ==
    [nics |-> nics, check_mode |-> check_mode, before |-> vms[1].nics,
     added |-> a.added, changed |-> a.changed, err |-> a.err,
     sameList |-> (nicCall # None /\ nicCall[1].nics = nics),
     afterDone |-> (nicCall # None /\ nicCall[1].nics = nics
                    /\ ~nicCall[1].check_mode /\ nicCall[1].err = "")]

AttachNics(nics, check_mode) ==
    /\ \E a \in {attach_nics([nics |-> vms[1].nics, changed |-> FALSE, err |-> "",
                             added |-> 0],
                            nics, check_mode, VnicProfiles, ClusterNetworks["c1"])} :
          /\ vms' = [vms EXCEPT ![1].nics = a.nics]
          /\ nicCall' = Some(NicCalled(nics, check_mode, a))
    /\ UNCHANGED <<params, pc, pool, changed, result, err, ret, requests,
                   found, rerun, prevChanged, extChange, attachFailed,
                   members, attached, diverged, initAgain,
                   initialization, initIn, initOut, profIn, profOut, ucOut>>
    /\ UNCHANGED WaitVars

NextNic == \E nics \in AnyNicLists, check_mode \in BOOLEAN : AttachNics(nics, check_mode)

SpecNic == InitNic /\ [][NextNic]_vars

----------------------------------------------------------------------------
(* get_initialization on its own: any vm mapping *)

MaxFrags == 2

DictsOver(vals) ==
    UNION {{d \in [K -> UNION {vals[k] : k \in K}] : \A k \in K : d[k] \in vals[k]} :
              K \in SUBSET DOMAIN vals}

CloudInits ==
    DictsOver([nic_name |-> {"eth0"}, nic_boot_protocol |-> {"", "DHCP"},
               nic_on_boot |-> {"true"}, nic_gateway |-> {"10.0.0.1"},
               nic_ip_address |-> {"10.0.0.2"}, host_name |-> {"ci-host"}])

Fragments ==
    DictsOver([nic_name |-> {"eth1"}, nic_boot_protocol |-> {"STATIC"},
               nic_netmask |-> {"255.0.0.0"}])

Syspreps == DictsOver([host_name |-> {"sp-host"}])

VmMappings ==
    {[nics |-> None, sysprep |-> s, cloud_init |-> c, cloud_init_nics |-> n] :
        s \in {None} \cup {Some(d) : d \in Syspreps},
        c \in {None} \cup {Some(d) : d \in CloudInits},
        n \in {None} \cup {Some(l) : l \in SeqsUpTo(Fragments, MaxFrags)}}

InitInit ==
    /\ params = [Base EXCEPT !.state = "none"]
    /\ pool = None
    /\ vms = [v \in VmIds |-> NoVm]
    /\ Fresh

GetInitialization(vm) ==
    /\ initIn = None
    /\ \E r \in {get_initialization(initialization, vm)} :
          /\ initOut' = Some(r)
          /\ initialization' = r.init
    /\ initIn' = Some(vm)
    /\ UNCHANGED <<params, pc, pool, vms, changed, result, err, ret, requests,
                   found, rerun, prevChanged, extChange, attachFailed,
                   members, attached, diverged, initAgain,
                   profIn, profOut, nicCall, ucOut>>
    /\ UNCHANGED WaitVars

NextInit == initIn = None /\ \E vm \in VmMappings : GetInitialization(vm)

SpecInit == InitInit /\ [][NextInit]_vars

----------------------------------------------------------------------------
(* Properties of update_check *)

SetFieldsAgree ==
    \A f \in DOMAIN ComparedFields :
       params[f] # None =>
          IF f = "cluster"
          THEN pool[1].cluster = Some(ClusterLink(params.cluster[1]))
          ELSE pool[1][ComparedFields[f]] = params[f]

\* C4: a compared field left unset in the desired spec never makes
\* update_check report divergence: when every set field agrees with the actual
\* entity the result is "no update needed", and the result is the same after
\* the actual entity's value of an unset field is replaced by any other value.
C4_UnsetFieldsIgnored ==
    ucOut # None =>
       /\ SetFieldsAgree => ucOut[1] = TRUE
       /\ \A f \in DOMAIN ComparedFields :
             params[f] = None =>
                \A v \in ActualValues[ComparedFields[f]] :
                   update_check(params, [pool[1] EXCEPT ![ComparedFields[f]] = v])
                      = ucOut[1]

C4_Witness ==
    /\ ucOut = Some(TRUE)
    /\ params.description = None
    /\ pool[1].description = Some("d1")
    /\ params.vm_count = None
    /\ pool[1].size = Some(2)
    /\ params.cluster = None
    /\ pool[1].cluster = Some(ClusterLink("c2"))

----------------------------------------------------------------------------
(* Properties of __attach_nics *)

ListNames(l) == {Get(l[i], "name") : i \in 1..Len(l)}

SeqNames(ns) == {ns[i].name : i \in 1..Len(ns)}

AbsentNames(c) == ListNames(c.nics) \ SeqNames(c.before)

NoDuplicateNics == \A v \in VmIds : Cardinality(SeqNames(vms[v].nics)) = Len(vms[v].nics)

\* C5 as stated: every attach creates exactly one NIC for each listed name
\* absent on the VM and sets changed; an attach of the list the previous
\* attach was given creates nothing and leaves changed = false; no VM has two
\* NICs of one name.
C5_AttachAlwaysCreates ==
    nicCall # None =>
       /\ AbsentNames(nicCall[1]) # {} =>
             /\ nicCall[1].added = Cardinality(AbsentNames(nicCall[1]))
             /\ nicCall[1].changed
       /\ nicCall[1].sameList => (nicCall[1].added = 0 /\ ~nicCall[1].changed)
       /\ NoDuplicateNics

\* C5 amended: outside check mode an attach that ends without error creates
\* exactly one NIC for each listed name absent on the VM and sets changed iff
\* it created one; in check mode it creates nothing and sets changed iff a
\* listed name is absent; the only error is a profile that does not resolve;
\* an attach of the list a completed real attach was given creates nothing and
\* leaves changed = false; no VM has two NICs of one name.
C5_AttachIdempotent ==
    nicCall # None =>
       /\ (~nicCall[1].check_mode /\ nicCall[1].err = "") =>
             /\ nicCall[1].added = Cardinality(AbsentNames(nicCall[1]))
             /\ nicCall[1].changed = (AbsentNames(nicCall[1]) # {})
             /\ SeqNames(vms[1].nics)
                   = SeqNames(nicCall[1].before) \cup ListNames(nicCall[1].nics)
       /\ nicCall[1].check_mode =>
             /\ nicCall[1].added = 0
             /\ vms[1].nics = nicCall[1].before
             /\ nicCall[1].changed = (AbsentNames(nicCall[1]) # {})
             /\ nicCall[1].err = ""
       /\ nicCall[1].err # "" => nicCall[1].err = "ProfileNotFound"
       /\ nicCall[1].afterDone =>
             /\ nicCall[1].added = 0
             /\ ~nicCall[1].changed
             /\ nicCall[1].err = ""
       /\ NoDuplicateNics

C5_Witness ==
    /\ nicCall # None
    /\ nicCall[1].afterDone
    /\ Len(nicCall[1].nics) = 2
    /\ Get(nicCall[1].nics[1], "name") = Get(nicCall[1].nics[2], "name")
    /\ Get(nicCall[1].nics[1], "name") = "nic2"
    /\ Len(vms[1].nics) = 1
    /\ ~nicCall[1].changed

----------------------------------------------------------------------------
(* Properties of __get_vnic_profile_id *)

InCluster(i) ==
    {j \in 1..Len(i.profiles) :
        i.profiles[j].name = i.name /\ i.profiles[j].network \in i.networks}

\* C7: when no profile of the requested name is bound to a network attached
\* to the cluster, the lookup fails with the profile-not-found error and
\* returns no id.
C7_ProfileNotFound ==
    (profOut # None /\ InCluster(profIn[1]) = {}) =>
       (profOut[1].err = "ProfileNotFound" /\ profOut[1].id = NoneStr)

C7_Witness ==
    /\ profOut # None
    /\ InCluster(profIn[1]) = {}
    /\ \E j \in 1..Len(profIn[1].profiles) :
          /\ profIn[1].profiles[j].name = profIn[1].name
          /\ profIn[1].profiles[j].network \notin profIn[1].networks
    /\ profIn[1].networks # {}
    /\ profOut[1].err = "ProfileNotFound"

----------------------------------------------------------------------------
(* Properties of get_initialization *)

FromCloudInit(init, cloud_init) ==
    /\ init.nic_configurations # None
    /\ \A k \in DOMAIN init.kwargs :
          k \in DOMAIN cloud_init /\ init.kwargs[k] = cloud_init[k]

HasSysprepValue(init, vm) ==
    /\ vm.sysprep # None
    /\ \E k \in DOMAIN init.kwargs :
          k \in DOMAIN vm.sysprep[1] /\ init.kwargs[k] = vm.sysprep[1][k]

\* C8: given both a cloud-init mapping (an empty one included) and a sysprep
\* mapping, the initialization is built from cloud-init only and holds no
\* sysprep value; a sysprep value appears in the result only when neither a
\* cloud-init mapping nor a cloud-init NIC fragment was given.
C8_CloudInitExcludesSysprep ==
    initOut # None =>
       /\ (initIn[1].cloud_init # None /\ initIn[1].sysprep # None) =>
             /\ initOut[1].err = ""
             /\ initOut[1].init # None
             /\ FromCloudInit(initOut[1].init[1], initIn[1].cloud_init[1])
             /\ ~HasSysprepValue(initOut[1].init[1], initIn[1])
       /\ (initOut[1].init # None /\ HasSysprepValue(initOut[1].init[1], initIn[1])) =>
             /\ initIn[1].cloud_init = None
             /\ initIn[1].cloud_init_nics \in {None, Some(<<>>)}

C8_Witness ==
    /\ initOut # None
    /\ initIn[1].cloud_init = Some(EmptyDict)
    /\ initIn[1].sysprep = Some([host_name |-> "sp-host"])
    /\ initOut[1].init # None
    /\ initOut[1].init[1].kwargs = EmptyDict

MeaningfulKeys ==
    {"nic_ip_address", "nic_netmask", "nic_gateway", "nic_boot_protocol", "nic_on_boot"}

Meaningful(frag) == DOMAIN frag \cap MeaningfulKeys # {}

GivenFragments(vm) ==
    (IF vm.cloud_init_nics = None THEN <<>> ELSE vm.cloud_init_nics[1])
    \o <<vm.cloud_init[1]>>

Rank(frags, i) == Cardinality({j \in 1..i : Meaningful(frags[j])})

ConfigOf(conf, frag) ==
    /\ conf.name = Get(frag, "nic_name")
    /\ conf.on_boot = Get(frag, "nic_on_boot")
    /\ (conf.ip # None) = (DOMAIN frag \cap IpKeys # {})
    /\ conf.ip # None => /\ conf.ip[1].address = Get(frag, "nic_ip_address")
                         /\ conf.ip[1].netmask = Get(frag, "nic_netmask")
                         /\ conf.ip[1].gateway = Get(frag, "nic_gateway")
    /\ conf.boot_protocol \in {NoneStr, "dhcp", "static"}
    /\ (conf.boot_protocol = NoneStr)
          = (Get(frag, "nic_boot_protocol") \in {NoneStr, ""})

\* C9: built from N fragments (the per-NIC list, then the singular
\* cloud-init mapping), K of which hold none of address, netmask, gateway,
\* boot protocol and on-boot, the NIC-config list has N-K entries, one for
\* each other fragment, in fragment order; a name alone keeps no fragment.
C9_NicDropRule ==
    (initOut # None /\ initIn[1].cloud_init # None) =>
       /\ initOut[1].err = ""
       /\ initOut[1].init # None
       /\ initOut[1].init[1].nic_configurations # None
       /\ Len(initOut[1].init[1].nic_configurations[1])
             = Len(GivenFragments(initIn[1]))
               - Cardinality({i \in 1..Len(GivenFragments(initIn[1])) :
                                 ~Meaningful(GivenFragments(initIn[1])[i])})
       /\ \A i \in 1..Len(GivenFragments(initIn[1])) :
             Meaningful(GivenFragments(initIn[1])[i]) =>
                ConfigOf(initOut[1].init[1].nic_configurations[1]
                            [Rank(GivenFragments(initIn[1]), i)],
                         GivenFragments(initIn[1])[i])

C9_Witness ==
    /\ initOut # None
    /\ initIn[1].cloud_init # None
    /\ initIn[1].cloud_init_nics # None
    /\ Len(initIn[1].cloud_init_nics[1]) = 2
    /\ initIn[1].cloud_init_nics[1][1] = [nic_name |-> "eth1"]
    /\ Meaningful(initIn[1].cloud_init_nics[1][2])
    /\ Meaningful(initIn[1].cloud_init[1])
    /\ Len(initOut[1].init[1].nic_configurations[1]) = 2

----------------------------------------------------------------------------
(* Properties of the wait loop, the update decision and post_create *)

Polling == pc = "wait" \/ observed # {} \/ blocked > 0

PollingScope ==
    /\ Polling => (params.wait /\ params.state = "present" /\ waitList # <<>>)
    /\ observed \subseteq SeqToSet(waitList)
    /\ (params.state = "present" /\ params.wait /\ err \in {"", "Timeout"})
          => SeqToSet(waitList) = members
    /\ (PassEnded /\ result = "ok" /\ params.state = "present" /\ params.wait)
          => observed = SeqToSet(waitList)

\* C11 as stated: the wait loop runs only with wait set and state present
\* and only for a pool created in this pass; it awaits exactly the VMs that
\* were members when they were listed, and the pass ends ok only after each
\* of them was seen DOWN or UP.
C11_PollsFreshPoolOnly ==
    /\ PollingScope
    /\ Polling => "add" \in SeqToSet(requests)

\* C11 amended: the wait loop runs only with wait set and state present,
\* whether the pass created, updated or left the pool; it awaits exactly the
\* VMs that were members when they were listed (later joiners are not
\* awaited), and the pass ends ok only after each of them was seen DOWN or UP.
C11_PollingScope == PollingScope

C11_Witness ==
    /\ PassEnded
    /\ result = "ok"
    /\ params.wait
    /\ blocked > 0
    /\ "add" \notin SeqToSet(requests)
    /\ Cardinality(observed) = 2
    /\ \E v \in VmIds :
          /\ vms[v].pool = Some(PoolId)
          /\ v \notin SeqToSet(waitList)
          /\ vms[v].status = "image_locked"

\* C12: a present pass that finds the pool issues an update if and only if a
\* compared field set in the spec differs from the actual entity; when none
\* does (the spec may differ in type, template or the vm block) it issues no
\* request and reports changed = false.
C12_UpdateIffDiverged ==
    (params.state = "present" /\ found) =>
       /\ ("update" \in SeqToSet(requests)) = diverged
       /\ ~diverged => (requests = <<>> /\ ~changed)

\* The same holds of every pass whose spec carries a vm block: the passes
\* that break C12 are those build_entity cannot build the update for.
C12_WithVmBlock ==
    (params.state = "present" /\ found /\ params.vm # None) =>
       /\ ("update" \in SeqToSet(requests)) = diverged
       /\ ~diverged => (requests = <<>> /\ ~changed)

NicsDeclared == params.vm # None /\ params.vm[1].nics # None

\* C13: __attach_nics is called only in a pass that created the pool, never
\* after an update or a no-op; with a NIC list declared it is called once for
\* every VM of the created pool and for no VM of another pool; with no NIC
\* list declared it is called for no VM and no NIC request is issued.
C13_PostCreateScope ==
    params.state = "present" =>
       /\ attached # <<>> => "add" \in SeqToSet(requests)
       /\ "nic_add" \in SeqToSet(requests) => requests[1] = "add"
       /\ ("add" \in SeqToSet(requests) /\ NicsDeclared /\ err \in {"", "Timeout"})
             => /\ SeqToSet(attached) = members
                /\ Cardinality(SeqToSet(attached)) = Len(attached)
       /\ SeqToSet(attached) \subseteq members
       /\ \A v \in VmIds : vms[v].pool = Some("id2") => vms[v].nics = <<>>
       /\ ~NicsDeclared => (attached = <<>> /\ "nic_add" \notin SeqToSet(requests))

C13_Witness ==
    /\ params.state = "present"
    /\ PassEnded
    /\ result = "ok"
    /\ requests # <<>>
    /\ requests[1] = "add"
    /\ "nic_add" \in SeqToSet(requests)
    /\ attached = <<1, 2>>
    /\ vms[NumVms].pool = Some("id2")

----------------------------------------------------------------------------
(* More properties of __get_vnic_profile_id *)

FirstInCluster(i) == CHOOSE j \in InCluster(i) : \A k \in InCluster(i) : j <= k

\* C14: when a profile of the requested name is bound to a network attached
\* to the cluster, the lookup returns the id of the first such profile in
\* listing order, never the id of a profile of another name or of a network
\* outside the cluster, and a repeated lookup over the same listing returns
\* the same id.
C14_FirstMatch ==
    (profOut # None /\ InCluster(profIn[1]) # {}) =>
       /\ profOut[1].err = ""
       /\ profOut[1].id = profIn[1].profiles[FirstInCluster(profIn[1])].id
       /\ \A j \in 1..Len(profIn[1].profiles) :
             profIn[1].profiles[j].id = profOut[1].id =>
                /\ profIn[1].profiles[j].name = profIn[1].name
                /\ profIn[1].profiles[j].network \in profIn[1].networks
       /\ get_vnic_profile_id(profIn[1].profiles, profIn[1].networks,
                              profIn[1].name) = profOut[1]

C14_Witness ==
    /\ profOut # None
    /\ Cardinality(InCluster(profIn[1])) = 2
    /\ FirstInCluster(profIn[1]) = 2
    /\ profIn[1].profiles[1].name = profIn[1].name
    /\ profOut[1].id = profIn[1].profiles[2].id

----------------------------------------------------------------------------
(* More properties of get_initialization *)

ListFragments(vm) == IF vm.cloud_init_nics = None THEN <<>> ELSE vm.cloud_init_nics[1]

AllFragments(vm) ==
    ListFragments(vm) \o (IF vm.cloud_init = None THEN <<>> ELSE <<vm.cloud_init[1]>>)

\* C15: given a cloud-init mapping, a non-empty list of per-NIC fragments, or
\* both, get_initialization returns, without error, an initialization whose
\* NIC configurations are built from the fragments; so it does when only the
\* fragment list is given.
C15_EitherInputSelectsCloudInit ==
    (initOut # None /\ AllFragments(initIn[1]) # <<>>) =>
       /\ initOut[1].err = ""
       /\ initOut[1].init # None
       /\ initOut[1].init[1].nic_configurations # None
       /\ Len(initOut[1].init[1].nic_configurations[1])
             = Cardinality({i \in 1..Len(AllFragments(initIn[1])) :
                               Meaningful(AllFragments(initIn[1])[i])})

\* C16: for every cloud-init mapping, the initialization built from it has
\* at most one NIC configuration per fragment and none of the NIC-level keys
\* (name, boot protocol, on-boot, address, netmask, gateway) among its
\* top-level keys, also when the mapping is dropped as a NIC fragment or
\* carries an empty boot protocol.
C16_NoNicKeyLeak ==
    (initOut # None /\ initIn[1].cloud_init # None /\ initOut[1].init # None) =>
       /\ initOut[1].init[1].nic_configurations # None
       /\ Len(initOut[1].init[1].nic_configurations[1])
             <= Len(AllFragments(initIn[1]))
       /\ DOMAIN initOut[1].init[1].kwargs \cap NicKeys = {}

----------------------------------------------------------------------------
(* get_initialization called twice on one VmPoolsModule *)

MemoMappings ==
    {[nics |-> None, sysprep |-> s, cloud_init |-> c, cloud_init_nics |-> n] :
        s \in {None} \cup {Some(d) : d \in Syspreps},
        c \in {None} \cup {Some(d) : d \in DictsOver([nic_name |-> {"eth0"},
                                                      host_name |-> {"ci-host"}])},
        n \in {None, Some(<<[nic_name |-> "eth1", nic_netmask |-> "255.0.0.0"]>>)}}

GetInitializationAgain(vm) ==
    /\ initIn # None
    /\ initAgain = None
    /\ initOut[1].err = ""
    /\ \E r \in {get_initialization(initialization, vm)} :
          /\ initAgain' = Some([vm |-> vm, out |-> r])
          /\ initialization' = r.init
    /\ UNCHANGED <<params, pc, pool, vms, changed, result, err, ret, requests,
                   found, rerun, prevChanged, extChange, attachFailed,
                   members, attached, diverged,
                   initIn, initOut, profIn, profOut, nicCall, ucOut>>
    /\ UNCHANGED WaitVars

NextMemo ==
    \/ \E vm \in MemoMappings : GetInitialization(vm)
    \/ \E vm \in MemoMappings : GetInitializationAgain(vm)

SpecMemo == InitInit /\ [][NextMemo]_vars

\* C17: on one module instance every get_initialization call after the first
\* returns the result of the first call, whatever mapping it is given and
\* whatever the first result was, None included.
C17_Memoized ==
    initAgain # None =>
       (initAgain[1].out.err = "" /\ initAgain[1].out.init = initOut[1].init)

\* The same holds of every second call that follows a first result other
\* than None: only a None result is computed again.
C17_MemoizedUnlessNone ==
    (initAgain # None /\ initOut[1].init # None) =>
       (initAgain[1].out.err = "" /\ initAgain[1].out.init = initOut[1].init)

----------------------------------------------------------------------------
(* More properties of __attach_nics *)

\* C18: in check mode __attach_nics adds no NIC (the VM's NICs are as
\* before), resolves no profile (a profile that does not resolve raises
\* nothing), sets changed when a listed name is absent on the VM and leaves
\* it unset when every listed name exists.
C18_CheckModeAttach ==
    (nicCall # None /\ nicCall[1].check_mode) =>
       /\ nicCall[1].added = 0
       /\ vms[1].nics = nicCall[1].before
       /\ nicCall[1].err = ""
       /\ AbsentNames(nicCall[1]) # {} => nicCall[1].changed
       /\ AbsentNames(nicCall[1]) = {} => ~nicCall[1].changed

C18_Witness ==
    /\ nicCall # None
    /\ nicCall[1].check_mode
    /\ nicCall[1].nics = <<[name |-> "nic2"], [name |-> "nic1", profile_name |-> "lonely"]>>
    /\ SeqNames(nicCall[1].before) = {"nic2"}
    /\ nicCall[1].changed
    /\ vms[1].nics = nicCall[1].before

----------------------------------------------------------------------------
(* Failure and ordering within a present pass *)

NicAdds == Cardinality({i \in DOMAIN requests : requests[i] = "nic_add"})

\* C19: when a declared NIC's profile does not resolve during post_create,
\* the pass ends in an error, __attach_nics is called for no further VM and no
\* wait follows, and what was done before stays: the pool exists and every
\* NIC the pass added is on its VM.
C19_NoRollback ==
    err = "ProfileNotFound" =>
       /\ result = "failed"
       /\ pc = "idle"
       /\ waitList = <<>>
       /\ pool # None
       /\ requests # <<>> /\ requests[1] = "add"
       /\ Len(attached) = 1
       /\ NicAdds = Len(vms[attached[1]].nics)
       /\ \A v \in VmIds \ {attached[1]} : vms[v].nics = <<>>

C19_Witness ==
    /\ err = "ProfileNotFound"
    /\ members = {1, 2}
    /\ attached = <<1>>
    /\ NicNames(1) = {"nic1"}
    /\ NicAdds = 1

\* C20: in a present pass the pool create or update request comes first and
\* is the only one of its kind, NIC-add requests follow a create only, the
\* wait loop runs only after create() returned without error, and a pass that
\* failed building or creating the pool issued no request and waits for no VM.
C20_Ordering ==
    params.state = "present" =>
       /\ \A i \in DOMAIN requests :
             /\ requests[i] \in {"add", "update"} => i = 1
             /\ requests[i] = "nic_add" => (i > 1 /\ requests[1] = "add")
       /\ Polling => err \in {"", "Timeout"}
       /\ (Polling /\ NicsDeclared /\ "add" \in SeqToSet(requests))
             => SeqToSet(attached) = members
       /\ err \in {"AttributeError", "TypeError", "ValidationError"}
             => (requests = <<>> /\ attached = <<>> /\ waitList = <<>>)
       /\ err \notin {"", "Timeout"} => (waitList = <<>> /\ ~Polling)
       /\ pc = "wait" => (err = "" /\ result = "none")

C20_Witness ==
    /\ params.state = "present"
    /\ PassEnded
    /\ result = "ok"
    /\ requests = <<"add", "nic_add", "nic_add", "nic_add", "nic_add">>
    /\ attached = <<1, 2>>
    /\ observed = {1, 2}
    /\ blocked > 0

====
